---- MODULE Spec2Model ----
(***************************************************************************)
(* The persistent mail queue of scalemail (src/emailq/queue.go): three     *)
(* bolt buckets, incoming / outgoing / deadletter, whose keys are          *)
(* RFC3339Nano timestamps and whose values are gob-encoded Msg structs.    *)
(* Every db.Update transaction is one atomic step.                         *)
(***************************************************************************)
EXTENDS Integers, Sequences, FiniteSets, TLC

VARIABLES incoming, outgoing, dead, now, tz, ret, accepted, removed, drain,
          workers, attempts, signal, handlers, sched

vars == <<incoming, outgoing, dead, now, tz, ret, accepted, removed, drain,
          workers, attempts, signal, handlers, sched>>

(***************************************************************************)
(* Bounds of the model.                                                    *)
(***************************************************************************)
\* envelopes accepted by Push in one behaviour
MaxPush == 2
\* envelopes accepted by Push in one behaviour of the failing store, and of
\* the specifications that enumerate the Retry counter of what is pushed
MaxFaultPush == 1
\* the clock takes the readings Reading(0), ..., Reading(MaxReading)
MaxReading == 2
\* Retry is not called on an envelope whose counter has reached MaxRetry
MaxRetry == 1
\* largest argument given to PopBatch
MaxBatch == 2
\* sendBatch goroutines in flight at one time
MaxWorkers == 1
\* sendBatch goroutines in flight at one time in the specifications of
\* sendLoop
MaxGoroutines == 2
\* deliveries made in one behaviour of the process whose store fails under
\* RemoveDelivered
MaxDeliveries == 3

(***************************************************************************)
(* Time.  An instant is a number of clock ticks since 12:00:00 UTC of the  *)
(* day the behaviour starts on; a tick is 10 ms, so the model keeps the    *)
(* first FracWidth of the nine fractional digits of RFC3339Nano.  The date *)
(* part of a key is the same for every instant of the modelled window and  *)
(* is left out of the key string.                                          *)
(***************************************************************************)
FracWidth == 2

RECURSIVE Pow10(_)
Pow10(n) == IF n = 0 THEN 1 ELSE 10 * Pow10(n - 1)

Second == Pow10(FracWidth)
Minute == 60 * Second
BaseSeconds == 12 * 3600

\* offsets from UTC, in minutes, of the zone the process runs in (time.Local)
Zones == {-60, 0, 60}

\* the readings of the wall clock the model covers: every second one falls on a
\* whole second, the others 50 ms later; two minutes lie between the pairs
Reading(i) == (i \div 2) * 2 * Minute + (i % 2) * 5

ClockReadings == {Reading(i) : i \in 0..MaxReading}

\* the reading after t, t itself when the model covers none
NextReading(t) ==
    IF \E r \in ClockReadings : r > t
    THEN CHOOSE r \in ClockReadings : r > t /\ \A q \in ClockReadings : q > t => r <= q
    ELSE t

(***************************************************************************)
(* Keys are byte strings, modelled as sequences of ASCII codes.            *)
(***************************************************************************)
NoKey == <<>>

Digits2(n) == <<48 + (n \div 10), 48 + (n % 10)>>

RECURSIVE DigitsN(_, _)
DigitsN(n, w) == IF w = 0 THEN <<>> ELSE Append(DigitsN(n \div 10, w - 1), 48 + (n % 10))

RECURSIVE TrimZeros(_)
TrimZeros(s) ==
    IF s # <<>> /\ s[Len(s)] = 48 THEN TrimZeros(SubSeq(s, 1, Len(s) - 1)) ELSE s

\* ".999999999": the fraction with its trailing zeros removed, nothing when it is 0
FormatFrac(f) == IF f = 0 THEN <<>> ELSE <<46>> \o TrimZeros(DigitsN(f, FracWidth))

\* "Z07:00": Z for UTC, otherwise the signed offset hh:mm
FormatZone(off) ==
    IF off = 0 THEN <<90>>
    ELSE LET a == IF off < 0 THEN -off ELSE off
         IN  <<IF off < 0 THEN 45 ELSE 43>> \o Digits2(a \div 60) \o <<58>> \o Digits2(a % 60)

\* t.In(zone).Format(time.RFC3339Nano), without the date
Format(t, off) ==
    LET wall == BaseSeconds * Second + t + off * Minute
        secs == wall \div Second
    IN  Digits2(secs \div 3600) \o <<58>> \o Digits2((secs % 3600) \div 60) \o <<58>>
        \o Digits2(secs % 60) \o FormatFrac(wall % Second) \o FormatZone(off)

IsDigit(c) == c \in 48..57

Num2(s, i) == (s[i] - 48) * 10 + (s[i + 1] - 48)

\* number of digits of s from position i on
RECURSIVE DigitRun(_, _)
DigitRun(s, i) == IF i <= Len(s) /\ IsDigit(s[i]) THEN 1 + DigitRun(s, i + 1) ELSE 0

RECURSIVE DigitsValue(_)
DigitsValue(s) == IF s = <<>> THEN 0 ELSE 10 * DigitsValue(SubSeq(s, 1, Len(s) - 1)) + (s[Len(s)] - 48)

FracLen(s) == IF Len(s) >= 10 /\ s[9] = 46 THEN DigitRun(s, 10) ELSE 0

ZonePart(s) == SubSeq(s, (IF FracLen(s) = 0 THEN 9 ELSE 10 + FracLen(s)), Len(s))

ZoneOK(z) ==
    \/ z = <<90>>
    \/ /\ Len(z) = 6
       /\ z[1] \in {43, 45}
       /\ IsDigit(z[2]) /\ IsDigit(z[3]) /\ z[4] = 58 /\ IsDigit(z[5]) /\ IsDigit(z[6])

\* time.Parse(time.RFC3339Nano, s) returns no error
ParseOK(s) ==
    /\ Len(s) >= 9
    /\ IsDigit(s[1]) /\ IsDigit(s[2]) /\ s[3] = 58
    /\ IsDigit(s[4]) /\ IsDigit(s[5]) /\ s[6] = 58
    /\ IsDigit(s[7]) /\ IsDigit(s[8])
    /\ (s[9] = 46 => FracLen(s) \in 1..FracWidth)
    /\ ZoneOK(ZonePart(s))

\* the instant time.Parse(time.RFC3339Nano, s) returns
Parse(s) ==
    LET n    == FracLen(s)
        frac == DigitsValue(SubSeq(s, 10, 9 + n)) * Pow10(FracWidth - n)
        z    == ZonePart(s)
        off  == IF z = <<90>> THEN 0
                ELSE (IF z[1] = 45 THEN -1 ELSE 1) * (Num2(z, 2) * 60 + Num2(z, 5))
    IN  (Num2(s, 1) * 3600 + Num2(s, 4) * 60 + Num2(s, 7)) * Second + frac
        - off * Minute - BaseSeconds * Second

\* bytes.Compare(a, b) < 0, the order of the keys of a bolt bucket
RECURSIVE LexLess(_, _)
LexLess(a, b) ==
    IF a = <<>> THEN b # <<>>
    ELSE IF b = <<>> THEN FALSE
    ELSE IF a[1] # b[1] THEN a[1] < b[1]
    ELSE LexLess(Tail(a), Tail(b))

(***************************************************************************)
(* Buckets: finite maps from keys to values.                               *)
(***************************************************************************)
EmptyBucket == [k \in {} |-> 0]

Put(b, k, v) == [x \in (DOMAIN b) \cup {k} |-> IF x = k THEN v ELSE b[x]]

Delete(b, k) == [x \in (DOMAIN b) \ {k} |-> b[x]]

\* Cursor().First(): the smallest key of the bucket, NoKey when it is empty
CursorFirst(b) ==
    IF DOMAIN b = {} THEN NoKey
    ELSE CHOOSE k \in DOMAIN b : \A j \in (DOMAIN b) \ {k} : LexLess(k, j)

(***************************************************************************)
(* Msg and its gob encoding.  gob transmits the fields of a struct in      *)
(* order, each as (field number, value), and leaves out the fields that    *)
(* hold their zero value (empty string, empty slice, 0); the decoder       *)
(* starts from the zero Msg and sets the fields it receives.               *)
(* A stored value is the gob bytes together with a tag naming the Push     *)
(* that accepted the envelope; the tag is a history label no operation     *)
(* reads.                                                                  *)
(***************************************************************************)
GobField(n, v, zero) == IF v = zero THEN <<>> ELSE << <<n, v>> >>

\* encode as it would be if it left the Retry field out
encodeWithoutRetry(msg) ==
    GobField(1, msg.Host, "") \o GobField(2, msg.From, "") \o GobField(3, msg.To, <<>>)
    \o GobField(4, msg.Data, <<>>)

encode(msg) ==
    GobField(1, msg.Host, "") \o GobField(2, msg.From, "") \o GobField(3, msg.To, <<>>)
    \o GobField(4, msg.Data, <<>>) \o GobField(5, msg.Retry, 0)

GobGet(b, n, zero) ==
    IF \E i \in 1..Len(b) : b[i][1] = n
    THEN b[CHOOSE i \in 1..Len(b) : b[i][1] = n][2]
    ELSE zero

decode(b) ==
    [Host |-> GobGet(b, 1, ""), From |-> GobGet(b, 2, ""), To |-> GobGet(b, 3, <<>>),
     Data |-> GobGet(b, 4, <<>>), Retry |-> GobGet(b, 5, 0)]

Value(tag, msg) == [tag |-> tag, gob |-> encode(msg)]


(***************************************************************************)
(* The transactions of queue.go, as functions of the buckets they read.    *)
(***************************************************************************)
\* the envelopes the model hands to Push
Msgs == {[Host |-> "h", From |-> "a", To |-> <<"x", "y">>, Data |-> <<1>>, Retry |-> 0]}

\* db.Update runs the closure and commits; it fails before the closure (begin)
\* or at the commit, and then the buckets are as they were
StoreFaults == {"none", "begin", "commit"}

\* db.Update as it would be if it dropped the error of the closure
UpdateErrOfStoreOnly(fault, err) == IF fault = "none" THEN "" ELSE "store"

\* what db.Update returns: the store's error, else the closure's
UpdateErr(fault, err) ==
    IF fault = "begin" THEN "store"
    ELSE IF err # "" THEN err
    ELSE IF fault = "commit" THEN "store" ELSE ""

\* the backoff as it would be without the factor 2
BackoffSquare(n) == n * n * Minute

\* the backoff as it would be if Retry re-inserted at the current instant
BackoffNone(n) == 0

\* time.Duration(m.Retry*m.Retry*2) * time.Minute
Backoff(n) == n * n * 2 * Minute

\* Pop as it would be if it copied the head to outgoing and left it in incoming
PopTxKeepsIncoming(inc, out, t) ==
    LET k == CursorFirst(inc)
        none == [incoming |-> inc, outgoing |-> out, key |-> NoKey, msg |-> <<>>,
                 err |-> "", id |-> 0]
    IN  IF k = NoKey \/ Parse(k) > t THEN none
        ELSE [incoming |-> inc, outgoing |-> Put(out, k, inc[k]),
              key |-> k, msg |-> <<decode(inc[k].gob)>>, err |-> "", id |-> inc[k].tag]

\* Pop as it would be if it deleted the head and never put it into outgoing
PopTxDropsHead(inc, out, t) ==
    LET k == CursorFirst(inc)
        none == [incoming |-> inc, outgoing |-> out, key |-> NoKey, msg |-> <<>>,
                 err |-> "", id |-> 0]
    IN  IF k = NoKey \/ Parse(k) > t THEN none
        ELSE [incoming |-> Delete(inc, k), outgoing |-> out,
              key |-> k, msg |-> <<decode(inc[k].gob)>>, err |-> "", id |-> inc[k].tag]

\* Pop as it would be without the test of the head's instant against the clock
PopTxIgnoresClock(inc, out, t) ==
    LET k == CursorFirst(inc)
    IN  IF k = NoKey
        THEN [incoming |-> inc, outgoing |-> out, key |-> NoKey, msg |-> <<>>,
              err |-> "", id |-> 0]
        ELSE [incoming |-> Delete(inc, k), outgoing |-> Put(out, k, inc[k]),
              key |-> k, msg |-> <<decode(inc[k].gob)>>, err |-> "", id |-> inc[k].tag]

\* the closure of Pop at instant t
PopTx(inc, out, t) ==
    LET k == CursorFirst(inc)
        none == [incoming |-> inc, outgoing |-> out, key |-> NoKey, msg |-> <<>>,
                 err |-> "", id |-> 0]
    IN  IF k = NoKey THEN none
        ELSE IF ~ParseOK(k) THEN [none EXCEPT !.err = "parse"]
        ELSE IF Parse(k) > t THEN none
        ELSE [incoming |-> Delete(inc, k), outgoing |-> Put(out, k, inc[k]),
              key |-> k, msg |-> <<decode(inc[k].gob)>>, err |-> "", id |-> inc[k].tag]

\* what Pop returns and leaves in the buckets under a fault of the store: the
\* closure has set key and msg by the time the commit fails
PopCall(inc, out, t, fault) ==
    LET r == PopTx(inc, out, t)
        kept == [r EXCEPT !.incoming = inc, !.outgoing = out]
    IN  IF fault = "begin"
        THEN [incoming |-> inc, outgoing |-> out, key |-> NoKey, msg |-> <<>>,
              err |-> "store", id |-> 0]
        ELSE IF r.err # "" THEN kept
        ELSE IF fault = "commit" THEN [kept EXCEPT !.err = "store"]
        ELSE r

\* Retry as it would be if it re-inserted the envelope as it was stored
RetryTxSameCounter(inc, out, k, t, zone) ==
    IF k \notin DOMAIN out
    THEN [incoming |-> inc, outgoing |-> out, newkey |-> NoKey, err |-> "notfound"]
    ELSE LET m  == decode(out[k].gob)
             nk == Format(t + Backoff(m.Retry + 1), zone)
         IN  [incoming |-> Put(inc, nk, out[k]),
              outgoing |-> Delete(out, k), newkey |-> nk, err |-> ""]

\* the closure of Retry(k) at instant t, in the zone the process runs in
RetryTx(inc, out, k, t, zone) ==
    IF k \notin DOMAIN out
    THEN [incoming |-> inc, outgoing |-> out, newkey |-> NoKey, err |-> "notfound"]
    ELSE LET m  == decode(out[k].gob)
             m2 == [m EXCEPT !.Retry = @ + 1]
             nk == Format(t + Backoff(m2.Retry), zone)
         IN  [incoming |-> Put(inc, nk, [tag |-> out[k].tag, gob |-> encode(m2)]),
              outgoing |-> Delete(out, k), newkey |-> nk, err |-> ""]

\* Kill as it would be if it copied the entry to dead and left it in outgoing
KillTxKeepsOutgoing(out, dd, k) ==
    IF k \notin DOMAIN out
    THEN [outgoing |-> out, dead |-> dd, err |-> "notfound"]
    ELSE [outgoing |-> out, dead |-> Put(dd, k, out[k]), err |-> ""]

\* the closure of Kill(k)
KillTx(out, dd, k) ==
    IF k \notin DOMAIN out
    THEN [outgoing |-> out, dead |-> dd, err |-> "notfound"]
    ELSE [outgoing |-> Delete(out, k), dead |-> Put(dd, k, out[k]), err |-> ""]

\* RemoveDelivered as it would be if it reported a key that is not there
RemoveDeliveredTxStrict(out, k) ==
    [outgoing |-> Delete(out, k), err |-> IF k \in DOMAIN out THEN "" ELSE "notfound"]

\* the closure of RemoveDelivered(k): Bucket.Delete does nothing, and returns no
\* error, when the key is not there
RemoveDeliveredTx(out, k) == [outgoing |-> Delete(out, k), err |-> ""]

\* the loop of Recover as it would be if it ended after the first entry
RecoverLoopOnce(inc, out, ts) ==
    IF DOMAIN out = {} THEN [incoming |-> inc, outgoing |-> out]
    ELSE LET k == CursorFirst(out)
         IN  [incoming |-> Put(inc, Format(Head(ts), 0), out[k]), outgoing |-> Delete(out, k)]

\* the loop of Recover; ts are the readings of time.Now(), one per entry
RECURSIVE RecoverLoop(_, _, _)
RecoverLoop(inc, out, ts) ==
    IF DOMAIN out = {} THEN [incoming |-> inc, outgoing |-> out]
    ELSE LET k == CursorFirst(out)
         IN  RecoverLoop(Put(inc, Format(Head(ts), 0), out[k]), Delete(out, k), Tail(ts))

\* the readings a loop of n iterations starting at t can take: the clock never
\* runs back, and between two iterations it has moved on or it has not
Readings(t, n) ==
    {ts \in [1..n -> ClockReadings \cup {t}] :
        /\ n > 0 => ts[1] = t
        /\ \A i \in 1..(n - 1) : ts[i + 1] \in {ts[i], NextReading(ts[i])}}

(***************************************************************************)
(* State.                                                                  *)
(*   incoming, outgoing, dead  the buckets                                 *)
(*   now, tz      the wall clock and the zone of the process               *)
(*   ret          what the last call returned; for Recover also the number *)
(*                of entries outgoing held and what the call before had    *)
(*                returned                                                 *)
(*   drain        the PopBatch in progress                                 *)
(*   workers      the sendBatch goroutines in flight                       *)
(*   accepted     history: the envelopes Push accepted, by tag             *)
(*   signal       the wakeups pending in the signal channel                *)
(*   handlers     the handle goroutines in flight                          *)
(*   sched        where sendLoop is, and the calls of Recover it has made  *)
(*   attempts     history: the deliveries tried, in order                  *)
(*   removed      history: the tags RemoveDelivered deleted                *)
(***************************************************************************)
NoRet(op) == [op |-> op, key |-> NoKey, msg |-> <<>>, err |-> "", id |-> 0]

NoWorkers == <<>>

NoHandlers == <<>>

\* sendLoop has been started and has not yet called Recover
Started == [pc |-> "start", recovers |-> 0]

Idle ==
    [pc |-> "idle", max |-> 0, keys |-> <<>>, msgs |-> <<>>, seen |-> <<>>,
     ids |-> <<>>]

Init ==
    /\ incoming = EmptyBucket
    /\ outgoing = EmptyBucket
    /\ dead = EmptyBucket
    /\ now = 0
    /\ tz \in Zones
    /\ ret = NoRet("New")
    /\ accepted = <<>>
    /\ removed = {}
    /\ drain = Idle
    /\ workers = NoWorkers
    /\ attempts = <<>>
    /\ signal = 0
    /\ handlers = NoHandlers
    /\ sched = Started

\* the wall clock moves on
Tick ==
    /\ \E t \in ClockReadings :
          /\ t > now
          /\ now' = t
    /\ ret' = NoRet("Tick")
    /\ UNCHANGED <<incoming, outgoing, dead, tz, accepted, removed, drain,
                   workers, attempts, signal, handlers, sched>>

PushOp(m, fault) ==
    /\ Len(accepted) < MaxPush
    /\ LET key == Format(now, 0)
           id  == Len(accepted) + 1
       IN  IF fault = "none"
           THEN /\ incoming' = Put(incoming, key, Value(id, m))
                /\ accepted' = Append(accepted, m)
                /\ ret' = [op |-> "Push", key |-> key, msg |-> <<m>>, err |-> "", id |-> id]
           ELSE /\ ret' = [op |-> "Push", key |-> key, msg |-> <<m>>, err |-> "store", id |-> 0]
                /\ UNCHANGED <<incoming, accepted>>
    /\ UNCHANGED <<outgoing, dead, now, tz, removed, drain, workers,
                   attempts, signal, sched>>

PopOp(fault) ==
    LET r == PopCall(incoming, outgoing, now, fault)
    IN  /\ incoming' = r.incoming
        /\ outgoing' = r.outgoing
        /\ ret' = [op |-> "Pop", key |-> r.key, msg |-> r.msg, err |-> r.err, id |-> r.id]
        /\ UNCHANGED <<dead, now, tz, accepted, removed, drain, workers,
                       attempts, signal, handlers, sched>>

\* Retry(k), KillOp and RemoveDeliveredOp say nothing of workers and attempts:
\* the caller does
RetryCall(k, fault) ==
    /\ LET r == RetryTx(incoming, outgoing, k, now, tz)
           ok == fault = "none" /\ r.err = ""
       IN  /\ incoming' = IF ok THEN r.incoming ELSE incoming
           /\ outgoing' = IF ok THEN r.outgoing ELSE outgoing
           /\ ret' = [op |-> "Retry", key |-> k, msg |-> <<>>,
                      err |-> UpdateErr(fault, r.err),
                      id |-> IF k \in DOMAIN outgoing THEN outgoing[k].tag ELSE 0,
                      newkey |-> IF ok THEN r.newkey ELSE NoKey]
    /\ UNCHANGED <<dead, now, tz, accepted, removed, drain, signal, handlers,
                   sched>>

\* Retry(k) on an envelope whose counter is below the bound of the model
RetryOp(k, fault) ==
    /\ k \in DOMAIN outgoing => decode(outgoing[k].gob).Retry < MaxRetry
    /\ RetryCall(k, fault)

KillOp(k, fault) ==
    LET r == KillTx(outgoing, dead, k)
        ok == fault = "none" /\ r.err = ""
    IN  /\ outgoing' = IF ok THEN r.outgoing ELSE outgoing
        /\ dead' = IF ok THEN r.dead ELSE dead
        /\ ret' = [op |-> "Kill", key |-> k, msg |-> <<>>,
                   err |-> UpdateErr(fault, r.err),
                   id |-> IF k \in DOMAIN outgoing THEN outgoing[k].tag ELSE 0]
        /\ UNCHANGED <<incoming, now, tz, accepted, removed, drain, signal,
                       handlers, sched>>

RemoveDeliveredOp(k, fault) ==
    LET r == RemoveDeliveredTx(outgoing, k)
        ok == fault = "none" /\ r.err = ""
        id == IF k \in DOMAIN outgoing THEN outgoing[k].tag ELSE 0
    IN  /\ outgoing' = IF ok THEN r.outgoing ELSE outgoing
        /\ removed' = IF ok /\ id # 0 THEN removed \cup {id} ELSE removed
        /\ ret' = [op |-> "RemoveDelivered", key |-> k, msg |-> <<>>,
                   err |-> UpdateErr(fault, r.err), id |-> id]
        /\ UNCHANGED <<incoming, dead, now, tz, accepted, drain, signal,
                       handlers, sched>>

RecoverOp(fault) ==
    \E ts \in Readings(now, Cardinality(DOMAIN outgoing)) :
       LET r == RecoverLoop(incoming, outgoing, ts)
           ok == fault = "none"
       IN  /\ incoming' = IF ok THEN r.incoming ELSE incoming
           /\ outgoing' = IF ok THEN r.outgoing ELSE outgoing
           /\ now' = IF fault = "begin" \/ ts = <<>> THEN now ELSE ts[Len(ts)]
           /\ ret' = [op |-> "Recover", key |-> NoKey, msg |-> <<>>,
                      err |-> UpdateErr(fault, ""), id |-> 0,
                      n |-> Cardinality(DOMAIN outgoing),
                      was |-> [op |-> ret.op, key |-> ret.key, msg |-> ret.msg]]
           /\ UNCHANGED <<dead, tz, accepted, removed, drain, workers,
                          attempts, signal, handlers>>

(***************************************************************************)
(* The queue driven through its interface, the store never failing and     *)
(* every key passed to Retry, Kill and RemoveDelivered one that Pop has    *)
(* moved to outgoing.                                                      *)
(***************************************************************************)
Push == (\E m \in Msgs : PushOp(m, "none")) /\ UNCHANGED handlers

Pop == PopOp("none")

Retry == \E k \in DOMAIN outgoing : RetryOp(k, "none") /\ UNCHANGED <<workers, attempts>>

Kill == \E k \in DOMAIN outgoing : KillOp(k, "none") /\ UNCHANGED <<workers, attempts>>

RemoveDelivered == \E k \in DOMAIN outgoing : RemoveDeliveredOp(k, "none") /\ UNCHANGED <<workers, attempts>>

Recover == RecoverOp("none") /\ UNCHANGED sched

Next ==
    \/ Tick
    \/ Push
    \/ Pop
    \/ Retry
    \/ Kill
    \/ RemoveDelivered
    \/ Recover

Spec == Init /\ [][Next]_vars

(***************************************************************************)
(* PopBatch(max) calls Pop in a loop, each call a transaction of its own,  *)
(* so the calls of other goroutines and the clock interleave with its      *)
(* iterations.  drain.seen[i] records, for the claims, the keys incoming   *)
(* held when the i-th key was popped, and drain.ids[i] the envelope that   *)
(* was popped with it.                                                     *)
(***************************************************************************)
\* the loop of PopBatch as it would be with <= for <
PopBatchMoreOffByOne(keys, max) == Len(keys) <= max

\* the condition of the loop of PopBatch
PopBatchMore(keys, max) == Len(keys) < max

PopBatchBegin ==
    /\ drain.pc = "idle"
    /\ \E max \in 1..MaxBatch : drain' = [Idle EXCEPT !.pc = "run", !.max = max]
    /\ ret' = NoRet("PopBatchBegin")
    /\ UNCHANGED <<incoming, outgoing, dead, now, tz, accepted, removed,
                   workers, attempts, signal, handlers, sched>>

PopBatchStepOp(fault) ==
    /\ drain.pc = "run"
    /\ LET r == PopCall(incoming, outgoing, now, fault)
           done == [op |-> "PopBatch", key |-> NoKey, msg |-> <<>>, err |-> "", id |-> 0,
                    keys |-> drain.keys, msgs |-> drain.msgs, max |-> drain.max,
                    ids |-> drain.ids]
       IN  IF ~PopBatchMore(drain.keys, drain.max)
           THEN /\ ret' = done
                /\ drain' = Idle
                /\ UNCHANGED <<incoming, outgoing>>
           ELSE /\ incoming' = r.incoming
                /\ outgoing' = r.outgoing
                /\ IF r.err # "" \/ r.key = NoKey
                   THEN /\ ret' = [done EXCEPT !.err = r.err]
                        /\ drain' = Idle
                   ELSE /\ ret' = NoRet("PopBatchStep")
                        /\ drain' = [drain EXCEPT !.keys = Append(@, r.key),
                                                  !.msgs = Append(@, r.msg[1]),
                                                  !.seen = Append(@, DOMAIN incoming),
                                                  !.ids = Append(@, r.id)]
    /\ UNCHANGED <<dead, now, tz, accepted, removed, signal, handlers>>

PopBatchStep == PopBatchStepOp("none") /\ UNCHANGED <<workers, attempts, sched>>

\* the process dies and starts again: what it held in memory is gone
Crash ==
    /\ drain.pc = "run"
    /\ ret' = NoRet("Crash")
    /\ drain' = Idle
    /\ workers' = NoWorkers
    /\ UNCHANGED <<incoming, outgoing, dead, now, tz, accepted, removed,
                   attempts, signal, handlers, sched>>

\* a drain, with submissions coming in and workers settling what was popped
NextDrain ==
    \/ Tick
    \/ Push
    \/ PopBatchBegin
    \/ PopBatchStep
    \/ Retry
    \/ Kill
    \/ RemoveDelivered
    \/ Crash
    \/ Recover

SpecDrain == Init /\ [][NextDrain]_vars

(***************************************************************************)
(* The queue driven through its interface with a store that can fail and   *)
(* callers that pass keys which are no longer in outgoing.                 *)
(***************************************************************************)
\* the keys a caller passes: one that Pop moved to outgoing, or the key of the
\* call before (nil after a Pop that found nothing, stale after a Retry, Kill
\* or RemoveDelivered)
KeyArgs ==
    (DOMAIN outgoing)
    \cup (IF ret.op \in {"Pop", "Retry", "Kill", "RemoveDelivered"} THEN {ret.key} ELSE {})

PushF ==
    /\ Len(accepted) < MaxFaultPush
    /\ \E m \in Msgs, fault \in StoreFaults : PushOp(m, fault)
    /\ UNCHANGED handlers

PopF == \E fault \in StoreFaults : PopOp(fault)

RetryF == \E k \in KeyArgs, fault \in StoreFaults : RetryOp(k, fault) /\ UNCHANGED <<workers, attempts>>

KillF == \E k \in KeyArgs, fault \in StoreFaults : KillOp(k, fault) /\ UNCHANGED <<workers, attempts>>

RemoveDeliveredF ==
    \E k \in KeyArgs, fault \in StoreFaults : RemoveDeliveredOp(k, fault) /\ UNCHANGED <<workers, attempts>>

RecoverF == (\E fault \in StoreFaults : RecoverOp(fault)) /\ UNCHANGED sched

NextFault ==
    \/ Tick
    \/ PushF
    \/ PopF
    \/ RetryF
    \/ KillF
    \/ RemoveDeliveredF
    \/ RecoverF

SpecFault == Init /\ [][NextFault]_vars

(***************************************************************************)
(* PopBatch on a store that can fail, with submissions coming in between   *)
(* its iterations.                                                         *)
(***************************************************************************)
PopBatchStepF ==
    \E fault \in StoreFaults : PopBatchStepOp(fault) /\ UNCHANGED <<workers, attempts, sched>>

NextBatch ==
    \/ Tick
    \/ Push
    \/ PopBatchBegin
    \/ PopBatchStepF

SpecBatch == Init /\ [][NextBatch]_vars

(***************************************************************************)
(* The outcome handlers of the dispatcher (main.go).  Each makes one call  *)
(* of the queue and logs the error the call returns.                       *)
(***************************************************************************)
\* the value of msg.Retry at which handleError gives up
MaxRetries == 6

\* the test of handleError as it would be with >= for ==
HandleErrorKillsFrom(msg) == msg.Retry >= MaxRetries

\* the test of handleError as it would be one retry short
HandleErrorKillsEarly(msg) == msg.Retry = MaxRetries - 1

\* msg.Retry == 6
HandleErrorKills(msg) == msg.Retry = MaxRetries

\* handleError(key, msg, err)
HandleError(key, msg, fault) ==
    IF HandleErrorKills(msg) THEN KillOp(key, fault) ELSE RetryCall(key, fault)

\* handleSuccess(key)
HandleSuccess(key, fault) == RemoveDeliveredOp(key, fault)

(***************************************************************************)
(* The dispatcher (main.go): sendLoop pops batches, groups each by host    *)
(* and starts one sendBatch goroutine per host.  A worker is               *)
(*   [host, batch, pc, i, err, calls, net]                                 *)
(* batch the (key, msg) pairs it was given, pc where it is in sendBatch,   *)
(* i the pair its loop is at, err why the connection failed, calls the     *)
(* history of the calls of the queue it has made and net the history of    *)
(* what it has done on the network.                                        *)
(***************************************************************************)
\* the host sendBatch does not connect to
TestDomain == "example.com"

\* what Connection.Open returns: nil, or the failure of the MX lookup or of
\* the dial
OpenResults == {"", "mx", "dial"}

\* what Connection.Hello returns: nil, or the failure of EHLO or of STARTTLS
HelloResults == {"", "hello", "starttls"}

\* the pairs of one host as they would be if each were put before the earlier
RECURSIVE PairsOfHostNewestFirst(_, _, _)
PairsOfHostNewestFirst(keys, messages, host) ==
    IF keys = <<>> THEN <<>>
    ELSE PairsOfHostNewestFirst(Tail(keys), Tail(messages), host)
         \o (IF Head(messages).Host = host
             THEN << [key |-> Head(keys), msg |-> Head(messages)] >> ELSE <<>>)

\* the pairs of one host, in the order of keys
RECURSIVE PairsOfHost(_, _, _)
PairsOfHost(keys, messages, host) ==
    IF keys = <<>> THEN <<>>
    ELSE (IF Head(messages).Host = host
          THEN << [key |-> Head(keys), msg |-> Head(messages)] >> ELSE <<>>)
         \o PairsOfHost(Tail(keys), Tail(messages), host)

groupByHost(keys, messages) ==
    [h \in {messages[i].Host : i \in 1..Len(keys)} |-> PairsOfHost(keys, messages, h)]

NewWorker(host, batch) ==
    [host |-> host, batch |-> batch, pc |-> "open", i |-> 1, err |-> "", calls |-> <<>>,
     net |-> <<>>]

\* go sendBatch(host, batch) for every host of grouped
RECURSIVE Spawn(_, _)
Spawn(ws, grouped) ==
    IF DOMAIN grouped = {} THEN ws
    ELSE LET h == CHOOSE x \in DOMAIN grouped : TRUE
             w == CHOOSE n \in 1..(Cardinality(DOMAIN ws) + 1) :
                     n \notin DOMAIN ws /\ \A j \in 1..(n - 1) : j \in DOMAIN ws
         IN  Spawn(ws @@ (w :> NewWorker(h, grouped[h])),
                   [x \in (DOMAIN grouped) \ {h} |-> grouped[x]])

\* an iteration of PopBatch in sendLoop; when PopBatch returns, the workers of
\* the batch are started (the model has room for limit workers at a time)
SchedPopBatchStepOp(limit) ==
    /\ PopBatchStepOp("none")
    /\ LET grouped == IF ret'.op = "PopBatch" THEN groupByHost(ret'.keys, ret'.msgs)
                      ELSE <<>>
       IN  /\ Cardinality(DOMAIN workers) + Cardinality(DOMAIN grouped) <= limit
           /\ workers' = Spawn(workers, grouped)
    /\ UNCHANGED attempts

SchedPopBatchStep == SchedPopBatchStepOp(MaxWorkers) /\ UNCHANGED sched

\* a loop of sendBatch as it would be if it returned after its first message
AdvanceStops(wk, op) ==
    [wk EXCEPT !.calls = Append(@, [op |-> op, key |-> wk.batch[wk.i].key]),
               !.i = @ + 1,
               !.pc = "done"]

\* a loop of sendBatch as it would be if a failure made it pass over the next
\* message
AdvanceSkips(wk, op) ==
    LET step == IF op = "RemoveDelivered" THEN 1 ELSE 2
    IN  [wk EXCEPT !.calls = Append(@, [op |-> op, key |-> wk.batch[wk.i].key]),
                   !.i = @ + step,
                   !.pc = IF wk.i + step > Len(wk.batch) THEN "done" ELSE @]

\* a loop of sendBatch moves to its next message, having made the call op for
\* the one it was at
Advance(wk, op) ==
    [wk EXCEPT !.calls = Append(@, [op |-> op, key |-> wk.batch[wk.i].key]),
               !.i = @ + 1,
               !.pc = IF wk.i = Len(wk.batch) THEN "done" ELSE @]

\* history: the delivery of pair p was tried, and err is what the call of the
\* queue made for its outcome returned
Attempt(p, ok, err) ==
    [id |-> IF p.key \in DOMAIN outgoing THEN outgoing[p.key].tag ELSE 0,
     key |-> p.key, retry |-> p.msg.Retry, ok |-> ok, err |-> err]

\* the test of sendBatch as it would be if it let every host through
IsTestDomainNever(host) == FALSE

\* host == "example.com"
IsTestDomain(host) == host = TestDomain

\* what c.Open(host) has done on the network when it returns res
OpenNet(res) == IF res = "mx" THEN <<"mx">> ELSE <<"mx", "dial">>

\* sendBatch up to the result of c.Open(host)
WorkerOpenRes(w, res) ==
    /\ workers[w].pc = "open"
    /\ workers' = [workers EXCEPT ![w] =
                      IF IsTestDomain(workers[w].host) THEN [@ EXCEPT !.pc = "skip"]
                      ELSE IF res = "" THEN [@ EXCEPT !.pc = "hello", !.net = OpenNet(res)]
                      ELSE [@ EXCEPT !.pc = "fail", !.err = res, !.net = OpenNet(res)]]
    /\ UNCHANGED <<incoming, outgoing, dead, now, tz, ret, accepted, removed,
                   drain, attempts, signal, handlers, sched>>

WorkerOpen(w) == \E res \in OpenResults : WorkerOpenRes(w, res)

\* c.Hello()
WorkerHelloRes(w, res) ==
    /\ workers[w].pc = "hello"
    /\ workers' = [workers EXCEPT ![w] =
                      IF res = "" THEN [@ EXCEPT !.pc = "send", !.net = Append(@, "hello")]
                      ELSE [@ EXCEPT !.pc = "fail", !.err = res, !.net = Append(@, "hello")]]
    /\ UNCHANGED <<incoming, outgoing, dead, now, tz, ret, accepted, removed,
                   drain, attempts, signal, handlers, sched>>

WorkerHello(w) == \E res \in HelloResults : WorkerHelloRes(w, res)

\* an iteration of the loop over the batch after c.Open or c.Hello failed
WorkerFail(w) ==
    /\ workers[w].pc = "fail"
    /\ LET wk == workers[w]
           p  == wk.batch[wk.i]
       IN  /\ HandleError(p.key, p.msg, "none")
           /\ workers' = [workers EXCEPT ![w] = Advance(wk, ret'.op)]
           /\ attempts' = Append(attempts, Attempt(p, FALSE, ret'.err))

\* an iteration of the loop over the batch of the test domain
WorkerSkip(w) ==
    /\ workers[w].pc = "skip"
    /\ LET wk == workers[w]
           p  == wk.batch[wk.i]
       IN  /\ HandleSuccess(p.key, "none")
           /\ workers' = [workers EXCEPT ![w] = Advance(wk, ret'.op)]
           /\ UNCHANGED attempts

\* an iteration of the sending loop: c.Send(m.msg) and the handler of its
\* result, whose call of the queue meets the given fault of the store
WorkerSendCall(w, ok, fault) ==
    /\ workers[w].pc = "send"
    /\ LET wk == workers[w]
           p  == wk.batch[wk.i]
       IN  /\ IF ok THEN HandleSuccess(p.key, fault) ELSE HandleError(p.key, p.msg, fault)
           /\ workers' = [workers EXCEPT ![w] =
                             [Advance(wk, ret'.op) EXCEPT !.net = Append(@, "send")]]
           /\ attempts' = Append(attempts, Attempt(p, ok, ret'.err))

WorkerSendOp(w, ok) == WorkerSendCall(w, ok, "none")

WorkerSend(w) == \E ok \in BOOLEAN : WorkerSendOp(w, ok)

\* sendBatch returns
WorkerExit(w) ==
    /\ workers[w].pc = "done"
    /\ workers' = [x \in (DOMAIN workers) \ {w} |-> workers[x]]
    /\ UNCHANGED <<incoming, outgoing, dead, now, tz, ret, accepted, removed,
                   drain, attempts, signal, handlers, sched>>

\* the clock moves on within the first minute, before any backoff has elapsed
TickSoon ==
    /\ Tick
    /\ now' < Minute

NextSend ==
    \/ TickSoon
    \/ Push
    \/ PopBatchBegin
    \/ SchedPopBatchStep
    \/ \E w \in DOMAIN workers : WorkerOpen(w)
    \/ \E w \in DOMAIN workers : WorkerHello(w)
    \/ \E w \in DOMAIN workers : WorkerFail(w)
    \/ \E w \in DOMAIN workers : WorkerSend(w)
    \/ \E w \in DOMAIN workers : WorkerExit(w)

\* the process runs in UTC
InitUTC == Init /\ tz = 0

SpecSend == InitUTC /\ [][NextSend]_vars

(***************************************************************************)
(* One envelope whose every delivery fails; the clock moves to the instant *)
(* the head of incoming is due at.                                         *)
(***************************************************************************)
Due ==
    /\ DOMAIN incoming # {}
    /\ Parse(CursorFirst(incoming)) > now
    /\ now' = Parse(CursorFirst(incoming))
    /\ ret' = NoRet("Tick")
    /\ UNCHANGED <<incoming, outgoing, dead, tz, accepted, removed, drain,
                   workers, attempts, signal, handlers, sched>>

PushOne ==
    /\ accepted = <<>>
    /\ \E m \in Msgs : PushOp(m, "none")
    /\ UNCHANGED handlers

NextFail ==
    \/ Due
    \/ PushOne
    \/ PopBatchBegin
    \/ SchedPopBatchStep
    \/ \E w \in DOMAIN workers : WorkerOpen(w)
    \/ \E w \in DOMAIN workers : WorkerHello(w)
    \/ \E w \in DOMAIN workers : WorkerFail(w)
    \/ \E w \in DOMAIN workers : WorkerSendOp(w, FALSE)
    \/ \E w \in DOMAIN workers : WorkerExit(w)

SpecFail == Init /\ [][NextFail]_vars

(***************************************************************************)
(* The failure handler applied to what Pop returned, for envelopes that    *)
(* carry any Retry counter.                                                *)
(***************************************************************************)
MsgsAny ==
    [Host : {"h"}, From : {"a"}, To : {<<"x", "y">>}, Data : {<<1>>},
     Retry : 0..(MaxRetries + 1)]

PushAny ==
    /\ Len(accepted) < MaxFaultPush
    /\ \E m \in MsgsAny : PushOp(m, "none")
    /\ UNCHANGED handlers

HandleErrorPopped ==
    /\ ret.op = "Pop" /\ ret.key # NoKey /\ ret.err = ""
    /\ HandleError(ret.key, ret.msg[1], "none")
    /\ UNCHANGED <<workers, attempts>>

NextHandle ==
    \/ Tick
    \/ PushAny
    \/ Pop
    \/ HandleErrorPopped

SpecHandle == Init /\ [][NextHandle]_vars

(***************************************************************************)
(* One envelope, of any shape, pushed onto the empty queue and popped.     *)
(***************************************************************************)
MsgsRT ==
    [Host : {"", "h"}, From : {"", "a"},
     To : {<<>>, <<"x">>, <<"x", "y">>, <<"y", "x">>},
     Data : {<<>>, <<0>>, <<1, 0>>}, Retry : {0, 1, 6}]

PushRT ==
    /\ accepted = <<>>
    /\ \E m \in MsgsRT : PushOp(m, "none")
    /\ UNCHANGED handlers

NextRT ==
    \/ Tick
    \/ PushRT
    \/ Pop

SpecRT == Init /\ [][NextRT]_vars

(***************************************************************************)
(* The signer (sender/dkim.go) and Connection.Send of package sender.       *)
(* The DATA stream is the sequence of what was written to it: "signed" the *)
(* whole signed form, "partial" a part of it, "data" msg.Data verbatim.    *)
(***************************************************************************)
\* what dkim.Sign of the library does: it writes the signed form and returns
\* nil, or it returns an error or panics, having written nothing or a part
PrimResults ==
    {[res |-> "", wrote |-> <<"signed">>]}
    \cup [res : {"error", "panic"}, wrote : {<<>>, <<"partial">>}]

\* Signer.Sign(emailBuf, w): the deferred function recovers a panic and logs
\* it; the result of Sign has no name, so after a recovered panic Sign returns
\* the zero value, nil
SignerSign(prim) ==
    [err |-> IF prim.res = "error" THEN "sign" ELSE "",
     wrote |-> prim.wrote,
     panics |-> FALSE]

\* what the SMTP client and the stream answer to one Send: the errors of MAIL,
\* of DATA, of w.Write and of w.Close, and the recipient RCPT fails at (0: none)
SendResults(msg) ==
    [mail : {"", "mail"}, rcpt : 0..Len(msg.To), data : {"", "data"},
     write : {"", "write"}, close : {"", "close"}]

\* the commands Send has issued when RCPT has been sent for n recipients
SendCmds(msg, n) == <<"MAIL">> \o [i \in 1..n |-> "RCPT"]

\* Connection.Send(msg) on a connection with or without a signer
ConnectionSend(msg, signer, io, prim) ==
    LET none == [called |-> FALSE, err |-> "", wrote |-> <<>>, panics |-> FALSE]
        sign == IF signer THEN [called |-> TRUE] @@ SignerSign(prim) ELSE none
        unsigned == ~signer \/ sign.err # ""
        base == [err |-> "", cmds |-> <<"MAIL">>, stream |-> <<>>,
                 closed |-> FALSE, sign |-> none]
    IN  IF io.mail # "" THEN [base EXCEPT !.err = io.mail]
        ELSE IF io.rcpt # 0
        THEN [base EXCEPT !.err = "rcpt", !.cmds = SendCmds(msg, io.rcpt)]
        ELSE IF io.data # ""
        THEN [base EXCEPT !.err = io.data,
                          !.cmds = SendCmds(msg, Len(msg.To)) \o <<"DATA">>]
        ELSE LET atData == [base EXCEPT !.cmds = SendCmds(msg, Len(msg.To)) \o <<"DATA">>,
                                        !.sign = sign,
                                        !.stream = sign.wrote]
             IN  IF unsigned /\ io.write # ""
                 THEN [atData EXCEPT !.err = io.write]
                 ELSE [atData EXCEPT !.err = io.close,
                                     !.closed = TRUE,
                                     !.stream = IF unsigned THEN Append(@, "data") ELSE @]

\* c.Send(m.msg) for the envelope Pop has just returned
SendPopped ==
    /\ ret.op = "Pop" /\ ret.key # NoKey /\ ret.err = ""
    /\ \E signer \in BOOLEAN, io \in SendResults(ret.msg[1]), prim \in PrimResults :
          ret' = [op |-> "Send", key |-> ret.key, msg |-> ret.msg, id |-> ret.id,
                  signer |-> signer, prim |-> prim.res]
                 @@ ConnectionSend(ret.msg[1], signer, io, prim)
    /\ UNCHANGED <<incoming, outgoing, dead, now, tz, accepted, removed,
                   drain, workers, attempts, signal, handlers, sched>>

NextSign ==
    \/ Tick
    \/ PushRT
    \/ Pop
    \/ SendPopped

SpecSign == Init /\ [][NextSign]_vars

(***************************************************************************)
(* The grouper (split in main.go, group in server.go).  An address is the  *)
(* sequence of its characters; the daemon hands over only addresses that   *)
(* match .+@.+ (daemon.go), so every one has an "@" with text on both      *)
(* sides of it.                                                            *)
(***************************************************************************)
At == "@"

\* strings.Split(s, "@")
RECURSIVE StringsSplit(_)
StringsSplit(s) ==
    IF \A i \in 1..Len(s) : s[i] # At THEN <<s>>
    ELSE LET i == CHOOSE n \in 1..Len(s) : s[n] = At /\ \A j \in 1..(n - 1) : s[j] # At
         IN  <<SubSeq(s, 1, i - 1)>> \o StringsSplit(SubSeq(s, i + 1, Len(s)))

\* host := strings.Split(to, "@")[1]
SplitHost(to) == StringsSplit(to)[2]

\* hostMap[host] = append(hostMap[host], to)
HostMapAdd(hostMap, to) ==
    LET host == SplitHost(to)
    IN  IF host \in DOMAIN hostMap
        THEN [hostMap EXCEPT ![host] = Append(@, to)]
        ELSE hostMap @@ (host :> <<to>>)

\* the first loop of split
RECURSIVE HostMapOf(_, _)
HostMapOf(hostMap, tos) ==
    IF tos = <<>> THEN hostMap
    ELSE HostMapOf(HostMapAdd(hostMap, Head(tos)), Tail(tos))

\* the orders in which a range over a map can visit its keys
Orders(S) ==
    {o \in [1..Cardinality(S) -> S] : \A i, j \in 1..Cardinality(S) : o[i] = o[j] => i = j}

\* split(msg), the map visited in the given order
split(msg, order) ==
    LET hostMap == HostMapOf(<<>>, msg.To)
    IN  [i \in 1..Len(order) |->
            [From |-> msg.From, Host |-> order[i], To |-> hostMap[order[i]],
             Data |-> msg.Data, Retry |-> 0]]

\* most recipients one submission carries
MaxRcpt == 3

\* the addresses of the model: x@h, y@h, x@g, and two whose local part holds an
\* "@", x@b@h and y@b@g (as "x@b"@h does)
Addrs ==
    {<<"x", At, "h">>, <<"y", At, "h">>, <<"x", At, "g">>,
     <<"x", At, "b", At, "h">>, <<"y", At, "b", At, "g">>}

RECURSIVE SeqsUpTo(_, _)
SeqsUpTo(S, n) ==
    IF n = 0 THEN {<<>>}
    ELSE LET shorter == SeqsUpTo(S, n - 1)
         IN  shorter \cup {Append(s, a) : s \in {t \in shorter : Len(t) = n - 1}, a \in S}

\* what the daemon hands to the handler
Submissions == [From : {"s"}, To : SeqsUpTo(Addrs, MaxRcpt), Data : {<<1>>}]

\* split(msg) called on a submission
Split ==
    /\ \E sub \in Submissions :
          \E order \in Orders(DOMAIN HostMapOf(<<>>, sub.To)) :
              ret' = [op |-> "split", key |-> NoKey, msg |-> <<sub>>, err |-> "", id |-> 0,
                      out |-> split(sub, order)]
    /\ UNCHANGED <<incoming, outgoing, dead, now, tz, accepted, removed,
                   drain, workers, attempts, signal, handlers, sched>>

SpecSplit == Init /\ [][Split]_vars

(***************************************************************************)
(* Batches for the test domain: every envelope submitted is addressed to   *)
(* example.com.                                                            *)
(***************************************************************************)
MsgsTest ==
    {[Host |-> TestDomain, From |-> "a", To |-> <<"x", "y">>, Data |-> <<1>>, Retry |-> 0]}

PushTest == (\E m \in MsgsTest : PushOp(m, "none")) /\ UNCHANGED handlers

NextTest ==
    \/ TickSoon
    \/ PushTest
    \/ PopBatchBegin
    \/ SchedPopBatchStep
    \/ \E w \in DOMAIN workers : WorkerOpen(w)
    \/ \E w \in DOMAIN workers : WorkerSkip(w)
    \/ \E w \in DOMAIN workers : WorkerExit(w)

SpecTest == InitUTC /\ [][NextTest]_vars

(***************************************************************************)
(* sendLoop draining a queue that holds envelopes for two hosts: the       *)
(* batches it pops, how it groups them and the workers it starts.          *)
(***************************************************************************)
MsgsHosts ==
    [Host : {"h", "g"}, From : {"a"}, To : {<<"x", "y">>}, Data : {<<1>>}, Retry : {0}]

PushHosts == (\E m \in MsgsHosts : PushOp(m, "none")) /\ UNCHANGED handlers

SchedGroupStep == SchedPopBatchStepOp(MaxGoroutines) /\ UNCHANGED sched

NextGroup ==
    \/ Tick
    \/ PushHosts
    \/ PopBatchBegin
    \/ SchedGroupStep

SpecGroup == Init /\ [][NextGroup]_vars

(***************************************************************************)
(* The process (main.go): handle goroutines, one per submission the daemon *)
(* has accepted, push what split returns and then wake sendLoop through    *)
(* the signal channel; sendLoop calls Recover, then drains the queue and   *)
(* waits for the ticker or the signal, for ever.  A handler is the         *)
(* envelopes it has still to push.                                         *)
(***************************************************************************)
\* signal = make(chan struct{}, 1)
SignalCap == 1

\* handle goroutines in flight at one time
MaxHandlers == 2

\* the select of handle as it would be without its default case: the send
\* waits for room in the channel
SelectSendBlocking(sig) == [ready |-> sig < SignalCap, signal |-> sig + 1]

\* select { case signal <- struct{}{}: default: }
SelectSend(sig) ==
    [ready |-> TRUE, signal |-> IF sig < SignalCap THEN sig + 1 ELSE sig]

\* the envelopes of the handlers still to be pushed
RECURSIVE Pending(_)
Pending(hs) ==
    IF DOMAIN hs = {} THEN 0
    ELSE LET h == CHOOSE x \in DOMAIN hs : TRUE
         IN  Len(hs[h]) + Pending([x \in (DOMAIN hs) \ {h} |-> hs[x]])

\* handle(msg) is called: msgs is what split(msg) returns
HandleBeginOp(msgs) ==
    /\ Cardinality(DOMAIN handlers) < MaxHandlers
    /\ Len(accepted) + Pending(handlers) + Len(msgs) <= MaxPush
    /\ LET h == CHOOSE n \in 1..(Cardinality(DOMAIN handlers) + 1) : n \notin DOMAIN handlers
       IN  handlers' = handlers @@ (h :> msgs)
    /\ ret' = NoRet("handle")
    /\ UNCHANGED <<incoming, outgoing, dead, now, tz, accepted, removed,
                   drain, workers, attempts, signal, sched>>

\* an iteration of the loop of handle: q.Push(m), its error logged
HandlePush(h) ==
    /\ handlers[h] # <<>>
    /\ \E fault \in StoreFaults : PushOp(Head(handlers[h]), fault)
    /\ handlers' = [handlers EXCEPT ![h] = Tail(@)]

\* the select of handle, and handle returns
HandleNotify(h) ==
    /\ handlers[h] = <<>>
    /\ SelectSend(signal).ready
    /\ signal' = SelectSend(signal).signal
    /\ handlers' = [x \in (DOMAIN handlers) \ {h} |-> handlers[x]]
    /\ ret' = NoRet("notify")
    /\ UNCHANGED <<incoming, outgoing, dead, now, tz, accepted, removed,
                   drain, workers, attempts, sched>>

\* err := q.Recover() at the start of sendLoop, its error logged
LoopRecoverOp(fault) ==
    /\ sched.pc = "start"
    /\ RecoverOp(fault)
    /\ sched' = [pc |-> "drain", recovers |-> sched.recovers + 1]

\* q.PopBatch(50) is called in the inner loop
LoopBegin ==
    /\ sched.pc = "drain"
    /\ PopBatchBegin

\* where sendLoop goes when PopBatch has returned r: out of the inner loop
\* when there is no key, round it again otherwise
LoopAfterBatch(r) == IF r.keys = <<>> THEN "wait" ELSE "drain"

\* an iteration of PopBatch in the inner loop; when it returns, the workers of
\* the batch are started (the model has room for limit workers at a time)
LoopPopBatchStepOp(limit) ==
    /\ sched.pc = "drain"
    /\ SchedPopBatchStepOp(limit)
    /\ sched' = IF ret'.op = "PopBatch"
                THEN [sched EXCEPT !.pc = LoopAfterBatch(ret')]
                ELSE sched

LoopPopBatchStep == LoopPopBatchStepOp(MaxGoroutines)

\* sendLoop as it would be if the outer loop began with the call of Recover
LoopTopRecovers == "start"

\* the top of the outer loop
LoopTop == "drain"

\* case <-tick
LoopTick ==
    /\ sched.pc = "wait"
    /\ sched' = [sched EXCEPT !.pc = LoopTop]
    /\ ret' = NoRet("tick")
    /\ UNCHANGED <<incoming, outgoing, dead, now, tz, accepted, removed,
                   drain, workers, attempts, signal, handlers>>

\* case <-signal
LoopSignal ==
    /\ sched.pc = "wait"
    /\ signal > 0
    /\ signal' = signal - 1
    /\ sched' = [sched EXCEPT !.pc = "grace"]
    /\ ret' = NoRet("signal")
    /\ UNCHANGED <<incoming, outgoing, dead, now, tz, accepted, removed,
                   drain, workers, attempts, handlers>>

\* time.Sleep(3 * time.Second) is over
LoopGrace ==
    /\ sched.pc = "grace"
    /\ sched' = [sched EXCEPT !.pc = LoopTop]
    /\ ret' = NoRet("grace")
    /\ UNCHANGED <<incoming, outgoing, dead, now, tz, accepted, removed,
                   drain, workers, attempts, signal, handlers>>

\* the process stops, however it does, and is started again: the buckets are
\* what the last committed transactions left, the goroutines and the channel
\* are new
Restart ==
    /\ sched.pc # "start"
    /\ drain' = Idle
    /\ workers' = NoWorkers
    /\ handlers' = NoHandlers
    /\ signal' = 0
    /\ sched' = Started
    /\ ret' = NoRet("Restart")
    /\ UNCHANGED <<incoming, outgoing, dead, now, tz, accepted, removed,
                   attempts>>

(***************************************************************************)
(* Submissions for the test domain, handled while sendLoop runs: the       *)
(* workers settle their batches without the network.                       *)
(***************************************************************************)
\* what split returns for a submission with no recipient, and with recipients
\* of the test domain
HandleInputsTest == {<<>>} \cup {<<m>> : m \in MsgsTest}

HandleBeginTest == \E msgs \in HandleInputsTest : HandleBeginOp(msgs)

LoopRecover == \E fault \in StoreFaults : LoopRecoverOp(fault)

NextNotify ==
    \/ HandleBeginTest
    \/ \E h \in DOMAIN handlers : HandlePush(h)
    \/ \E h \in DOMAIN handlers : HandleNotify(h)
    \/ LoopRecover
    \/ LoopBegin
    \/ LoopPopBatchStep
    \/ LoopTick
    \/ LoopSignal
    \/ LoopGrace
    \/ \E w \in DOMAIN workers : WorkerOpen(w)
    \/ \E w \in DOMAIN workers : WorkerSkip(w)
    \/ \E w \in DOMAIN workers : WorkerExit(w)

SpecNotify == InitUTC /\ [][NextNotify]_vars

(***************************************************************************)
(* sendLoop woken by its ticker, in a process that may stop at any point   *)
(* and be started again; the envelopes are for the test domain and the     *)
(* store does not fail.                                                    *)
(***************************************************************************)
NextLoop ==
    \/ TickSoon
    \/ PushTest
    \/ LoopRecoverOp("none")
    \/ LoopBegin
    \/ LoopPopBatchStep
    \/ LoopTick
    \/ \E w \in DOMAIN workers : WorkerOpen(w)
    \/ \E w \in DOMAIN workers : WorkerSkip(w)
    \/ \E w \in DOMAIN workers : WorkerExit(w)
    \/ Restart

SpecLoop == InitUTC /\ [][NextLoop]_vars

(***************************************************************************)
(* Deliveries that succeed while the store may fail under the call that    *)
(* settles them, in a process that may stop and be started again.          *)
(***************************************************************************)
\* c.Send succeeds and handleSuccess meets any fault of the store
WorkerDeliver(w) ==
    /\ Len(attempts) < MaxDeliveries
    /\ \E fault \in StoreFaults : WorkerSendCall(w, TRUE, fault)

NextOrphan ==
    \/ TickSoon
    \/ Push
    \/ LoopRecoverOp("none")
    \/ LoopBegin
    \/ LoopPopBatchStep
    \/ LoopTick
    \/ \E w \in DOMAIN workers : WorkerOpenRes(w, "")
    \/ \E w \in DOMAIN workers : WorkerHelloRes(w, "")
    \/ \E w \in DOMAIN workers : WorkerDeliver(w)
    \/ \E w \in DOMAIN workers : WorkerExit(w)
    \/ Restart

SpecOrphan == InitUTC /\ [][NextOrphan]_vars

(***************************************************************************)
(* The running process with its clock: submissions for the test domain are *)
(* handled while sendLoop drains, waits and is woken by the signal or by   *)
(* the ticker.  The scheduler of goroutines is fair to sendLoop, to the    *)
(* handlers and to the workers, and the ticker fires again and again; the  *)
(* store does not fail under sendLoop.                                     *)
(***************************************************************************)
NextWake ==
    \/ TickSoon
    \/ HandleBeginTest
    \/ \E h \in DOMAIN handlers : HandlePush(h)
    \/ \E h \in DOMAIN handlers : HandleNotify(h)
    \/ LoopRecoverOp("none")
    \/ LoopBegin
    \/ LoopPopBatchStep
    \/ LoopTick
    \/ LoopSignal
    \/ LoopGrace
    \/ \E w \in DOMAIN workers : WorkerOpen(w)
    \/ \E w \in DOMAIN workers : WorkerSkip(w)
    \/ \E w \in DOMAIN workers : WorkerExit(w)

\* every goroutine that can run does run
FairGoroutines ==
    /\ WF_vars(LoopRecoverOp("none"))
    /\ WF_vars(LoopBegin)
    /\ WF_vars(LoopPopBatchStep)
    /\ WF_vars(LoopSignal)
    /\ WF_vars(LoopGrace)
    /\ WF_vars(\E h \in DOMAIN handlers : HandlePush(h))
    /\ WF_vars(\E h \in DOMAIN handlers : HandleNotify(h))
    /\ WF_vars(\E w \in DOMAIN workers : WorkerOpen(w))
    /\ WF_vars(\E w \in DOMAIN workers : WorkerSkip(w))
    /\ WF_vars(\E w \in DOMAIN workers : WorkerExit(w))

\* t := time.NewTicker(time.Minute): a tick is always on its way
FairTick == WF_vars(LoopTick)

SpecWake == InitUTC /\ [][NextWake]_vars /\ FairGoroutines /\ FairTick

(***************************************************************************)
(* The running system whose every delivery fails: envelopes come in with   *)
(* Retry 0, sendLoop hands them to workers, the failure handler retries or *)
(* kills them, and the process may stop at any point and be started again. *)
(* The clock moves to the instant the head of incoming is due at, and one  *)
(* worker runs at a time.                                                  *)
(***************************************************************************)
NextRange ==
    \/ Due
    \/ Push
    \/ LoopRecoverOp("none")
    \/ LoopBegin
    \/ LoopPopBatchStepOp(MaxWorkers)
    \/ LoopTick
    \/ \E w \in DOMAIN workers : WorkerOpenRes(w, "dial")
    \/ \E w \in DOMAIN workers : WorkerFail(w)
    \/ \E w \in DOMAIN workers : WorkerExit(w)
    \/ Restart

SpecRange == InitUTC /\ [][NextRange]_vars

(***************************************************************************)
(* Connection.Open and Connection.Hello of package sender.  A connection   *)
(* is [hello, addr, c]: the fields of the struct, c the address the SMTP   *)
(* client is connected to (NoClient when there is none).  Host names are   *)
(* sequences of characters.                                                *)
(***************************************************************************)
Dot == "."

NoClient == <<"nil">>

\* the zero value of *tls.Config: no upgrade was asked for
NoConfig == [ServerName |-> <<"nil">>, InsecureSkipVerify |-> FALSE]

\* most MX records one lookup returns
MaxMX == 2

\* the hosts of the MX records of the model: with the dot the resolver leaves
\* at the end of a name, and without it
MXHosts ==
    {<<"m", Dot, "h", Dot>>, <<"m", Dot, "h">>, <<"n", Dot, "g", Dot>>}

\* the hosts sendBatch is started for
MailHosts == {"h", "g"}

\* what net.LookupMX returns: an error, or the records in order of preference
LookupResults == [err : {"", "dns"}, hosts : SeqsUpTo(MXHosts, MaxMX)]

\* strings.TrimSuffix(s, ".")
StringsTrimSuffix(s) ==
    IF s # <<>> /\ s[Len(s)] = Dot THEN SubSeq(s, 1, Len(s) - 1) ELSE s

\* findMDA(host), given what the lookup returns
findMDA(lookup) ==
    IF lookup.err # "" THEN [mda |-> <<>>, err |-> lookup.err]
    ELSE IF Len(lookup.hosts) = 0 THEN [mda |-> <<>>, err |-> "nomx"]
    ELSE [mda |-> lookup.hosts[1], err |-> ""]

\* NewConnection(hello): addr is the zero value of a string
NewConnection(hello) == [hello |-> hello, addr |-> <<>>, c |-> NoClient]

\* c.Open(host): addr is a variable of Open, the field c.addr is not assigned
ConnectionOpen(c, lookup, dial) ==
    LET found == findMDA(lookup)
        addr  == StringsTrimSuffix(found.mda)
    IN  IF found.err # "" THEN [conn |-> c, err |-> "mx", dialed |-> <<>>]
        ELSE IF dial # "" THEN [conn |-> [c EXCEPT !.c = NoClient], err |-> "dial",
                                dialed |-> addr]
        ELSE [conn |-> [c EXCEPT !.c = addr], err |-> "", dialed |-> addr]

\* what the peer answers to one Hello: the error of EHLO, whether it
\* advertises STARTTLS, and the error of the upgrade
HelloAnswers == [hello : {"", "hello"}, starttls : BOOLEAN, tls : {"", "starttls"}]

\* c.Hello(): config is what is passed to StartTLS
ConnectionHello(c, io) ==
    IF io.hello # "" THEN [err |-> io.hello, config |-> NoConfig, tls |-> FALSE]
    ELSE IF ~io.starttls THEN [err |-> "", config |-> NoConfig, tls |-> FALSE]
    ELSE [err |-> io.tls,
          config |-> [ServerName |-> c.addr, InsecureSkipVerify |-> TRUE],
          tls |-> io.tls = ""]

\* c := sender.NewConnection(localname, ...) in sendBatch
ConnNew ==
    /\ ret' = [NoRet("NewConnection") EXCEPT !.msg = <<NewConnection("localhost")>>]
    /\ UNCHANGED <<incoming, outgoing, dead, now, tz, accepted, removed,
                   drain, workers, attempts, signal, handlers, sched>>

\* err := c.Open(host)
ConnOpen ==
    /\ ret.op = "NewConnection"
    /\ \E host \in MailHosts, lookup \in LookupResults, dial \in {"", "dial"} :
          LET r == ConnectionOpen(ret.msg[1], lookup, dial)
          IN  ret' = [op |-> "Open", key |-> NoKey, msg |-> <<r.conn>>, err |-> r.err,
                      id |-> 0, host |-> host, lookup |-> lookup, dialed |-> r.dialed]
    /\ UNCHANGED <<incoming, outgoing, dead, now, tz, accepted, removed,
                   drain, workers, attempts, signal, handlers, sched>>

\* err = c.Hello(), after Open has returned nil
ConnHello ==
    /\ ret.op = "Open" /\ ret.err = ""
    /\ \E io \in HelloAnswers :
          LET r == ConnectionHello(ret.msg[1], io)
          IN  ret' = [op |-> "Hello", key |-> NoKey, msg |-> ret.msg, err |-> r.err,
                      id |-> 0, host |-> ret.host, lookup |-> ret.lookup,
                      dialed |-> ret.dialed, config |-> r.config, tls |-> r.tls]
    /\ UNCHANGED <<incoming, outgoing, dead, now, tz, accepted, removed,
                   drain, workers, attempts, signal, handlers, sched>>

NextConn ==
    \/ ConnNew
    \/ ConnOpen
    \/ ConnHello

SpecConn == InitUTC /\ [][NextConn]_vars

(***************************************************************************)
(* The submission daemon (daemon/daemon.go): converse reads the lines of   *)
(* one connection and fills one Msg, declared before the loop, which it    *)
(* hands to the handler at each DATA.  The session is kept in ret:         *)
(*   msg      <<the Msg of converse>>                                      *)
(*   n        the lines read                                               *)
(*   reply    what was written for the last line                           *)
(*   handed   <<what the handler was called with>> by the last line        *)
(*   since    history: the recipients RCPT has accepted since the last     *)
(*            DATA or RSET of the session                                  *)
(*   rcpts    history: since, as it was when the last line was read        *)
(***************************************************************************)
\* lines read on one connection
MaxLines == 4

Lt == "<"
Gt == ">"

\* the places of character ch in s
PlacesOf(s, ch) == {i \in 1..Len(s) : s[i] = ch}

Least(S) == CHOOSE i \in S : \A j \in S : i <= j

Greatest(S) == CHOOSE i \in S : \A j \in S : j <= i

\* parseAddr(s): the first submatch of "<(.+@.+)>" in s, "" when there is no
\* match; the match starts at the first "<" and, both .+ being greedy, ends at
\* the last ">"
parseAddr(s) ==
    IF PlacesOf(s, Lt) = {} \/ PlacesOf(s, Gt) = {} THEN <<>>
    ELSE LET i == Least(PlacesOf(s, Lt))
             j == Greatest(PlacesOf(s, Gt))
         IN  IF \E p \in PlacesOf(s, At) : i + 2 <= p /\ p + 2 <= j
             THEN SubSeq(s, i + 1, j - 1)
             ELSE <<>>

\* what follows the verb on the lines of the model: <x@h>, <y@g>, and two
\* that name no address, <x> and <@h>
Args ==
    {<<Lt, "x", At, "h", Gt>>, <<Lt, "y", At, "g", Gt>>,
     <<Lt, "x", Gt>>, <<Lt, At, "h", Gt>>}

\* var msg Msg
ZeroMsg == [From |-> <<>>, To |-> <<>>, Data |-> <<>>]

\* the session once a line has been read
Session(cmd, msg, since, reply, handed) ==
    [op |-> cmd, key |-> NoKey, msg |-> <<msg>>, err |-> "", id |-> 0,
     n |-> IF ret.op = "Accept" THEN 1 ELSE ret.n + 1,
     reply |-> reply, handed |-> handed, since |-> since, rcpts |-> ret.since]

\* converse is at the top of its loop and the model has room for a line
AtLoopTop ==
    /\ ret.op \in {"Accept", "EHLO", "HELO", "MAIL", "RCPT", "DATA", "RSET", "QUIT",
                   "other"}
    /\ ret.op # "Accept" => ret.n < MaxLines

\* go handle(textproto.NewConn(c)): converse writes its greeting and declares
\* msg
Accept ==
    /\ ret' = [op |-> "Accept", key |-> NoKey, msg |-> <<ZeroMsg>>, err |-> "", id |-> 0,
               n |-> 0, reply |-> <<"220">>, handed |-> <<>>, since |-> <<>>,
               rcpts |-> <<>>]
    /\ UNCHANGED <<incoming, outgoing, dead, now, tz, accepted, removed,
                   drain, workers, attempts, signal, handlers, sched>>

\* case "EHLO", which falls through, and case "HELO"
CmdHello ==
    /\ AtLoopTop
    /\ \/ ret' = Session("EHLO", ret.msg[1], ret.since, <<"250-", "250">>, <<>>)
       \/ ret' = Session("HELO", ret.msg[1], ret.since, <<"250">>, <<>>)
    /\ UNCHANGED <<incoming, outgoing, dead, now, tz, accepted, removed,
                   drain, workers, attempts, signal, handlers, sched>>

\* case "MAIL"
CmdMail ==
    /\ AtLoopTop
    /\ \E s \in Args :
          LET msg == [ret.msg[1] EXCEPT !.From = parseAddr(s)]
          IN  ret' = Session("MAIL", msg, ret.since,
                             IF msg.From = <<>> THEN <<"501">> ELSE <<"250">>, <<>>)
    /\ UNCHANGED <<incoming, outgoing, dead, now, tz, accepted, removed,
                   drain, workers, attempts, signal, handlers, sched>>

\* case "RCPT"
CmdRcpt ==
    /\ AtLoopTop
    /\ \E s \in Args :
          LET addr == parseAddr(s)
          IN  IF addr = <<>>
              THEN ret' = Session("RCPT", ret.msg[1], ret.since, <<"501">>, <<>>)
              ELSE ret' = Session("RCPT", [ret.msg[1] EXCEPT !.To = Append(@, addr)],
                                  Append(ret.since, addr), <<"250">>, <<>>)
    /\ UNCHANGED <<incoming, outgoing, dead, now, tz, accepted, removed,
                   drain, workers, attempts, signal, handlers, sched>>

\* case "DATA": the body is read and defaultHandle(&msg) is called
CmdData ==
    /\ AtLoopTop
    /\ \E data \in {<<1>>, <<2>>} :
          LET msg == [ret.msg[1] EXCEPT !.Data = data]
          IN  ret' = Session("DATA", msg, <<>>, <<"354", "250">>, <<msg>>)
    /\ UNCHANGED <<incoming, outgoing, dead, now, tz, accepted, removed,
                   drain, workers, attempts, signal, handlers, sched>>

\* case "RSET"
CmdRset ==
    /\ AtLoopTop
    /\ ret' = Session("RSET", ret.msg[1], <<>>, <<"250">>, <<>>)
    /\ UNCHANGED <<incoming, outgoing, dead, now, tz, accepted, removed,
                   drain, workers, attempts, signal, handlers, sched>>

\* case "QUIT": the loop goes on, to the end of the input
CmdQuit ==
    /\ AtLoopTop
    /\ ret' = Session("QUIT", ret.msg[1], ret.since, <<"221">>, <<>>)
    /\ UNCHANGED <<incoming, outgoing, dead, now, tz, accepted, removed,
                   drain, workers, attempts, signal, handlers, sched>>

\* default
CmdOther ==
    /\ AtLoopTop
    /\ ret' = Session("other", ret.msg[1], ret.since, <<"500">>, <<>>)
    /\ UNCHANGED <<incoming, outgoing, dead, now, tz, accepted, removed,
                   drain, workers, attempts, signal, handlers, sched>>

\* read returns io.EOF, or converse panics (a line of fewer than four
\* characters at s[:4], an error of the connection): converse is over and
\* handle closes the connection
Hangup ==
    /\ AtLoopTop
    /\ \E why \in {"EOF", "panic"} : ret' = NoRet(why)
    /\ UNCHANGED <<incoming, outgoing, dead, now, tz, accepted, removed,
                   drain, workers, attempts, signal, handlers, sched>>

NextDaemon ==
    \/ Accept
    \/ CmdHello
    \/ CmdMail
    \/ CmdRcpt
    \/ CmdData
    \/ CmdRset
    \/ CmdQuit
    \/ CmdOther
    \/ Hangup

SpecDaemon == InitUTC /\ [][NextDaemon]_vars

(***************************************************************************)
(* Where an envelope is.                                                   *)
(***************************************************************************)
Places(id) ==
    {<<"incoming", k>> : k \in {j \in DOMAIN incoming : incoming[j].tag = id}}
    \cup {<<"outgoing", k>> : k \in {j \in DOMAIN outgoing : outgoing[j].tag = id}}
    \cup {<<"dead", k>> : k \in {j \in DOMAIN dead : dead[j].tag = id}}

Pushed == 1..Len(accepted)

\* the Retry counter of the envelope stored under k in bucket b
RetryOf(b, k) == decode(b[k].gob).Retry

(***************************************************************************)
(* Claims.                                                                 *)
(***************************************************************************)

C2_NoLoss ==
    \A id \in Pushed : Places(id) # {} \/ id \in removed

\* C3: when Pop returns a key k, the step moved the entry of k, and only it,
\* from incoming to outgoing: right after the call k is in outgoing and not in
\* incoming; a Pop that returns no key leaves the three buckets as they were.
C3_PopMoves ==
    [][ret'.op = "Pop" =>
         IF ret'.key = NoKey \/ ret'.err # ""
         THEN UNCHANGED <<incoming, outgoing, dead>>
         ELSE /\ ret'.key \in DOMAIN incoming
              /\ incoming' = Delete(incoming, ret'.key)
              /\ outgoing' = Put(outgoing, ret'.key, incoming[ret'.key])
              /\ ret'.key \in DOMAIN outgoing'
              /\ ret'.key \notin DOMAIN incoming'
              /\ dead' = dead]_vars

\* Pop has returned a key
C3_Witness == ret.op = "Pop" /\ ret.key # NoKey /\ ret.err = ""

\* C4: Push(e) on the empty queue followed by Pop returns an envelope equal to
\* e in Host, From, To (same order), Data and Retry.
C4_RoundTrip ==
    (ret.op = "Pop" /\ ret.key # NoKey /\ ret.err = "") => ret.msg = <<accepted[ret.id]>>

\* Pop has returned an envelope with a non-zero Retry and fields that hold
\* their zero value
C4_Witness ==
    /\ ret.op = "Pop" /\ ret.key # NoKey
    /\ ret.msg[1].Retry = 6 /\ ret.msg[1].Data = <<>> /\ ret.msg[1].To = <<"y", "x">>

\* C5: Pop never returns an envelope whose key's instant is later than the
\* clock; when incoming is empty or its smallest key is in the future, Pop
\* returns (nil, nil) without error and leaves the three buckets unchanged.
C5_PopOnlyDue ==
    [][ret'.op = "Pop" =>
         /\ ret'.key # NoKey => Parse(ret'.key) <= now'
         /\ (DOMAIN incoming = {} \/ Parse(CursorFirst(incoming)) > now) =>
              /\ ret'.key = NoKey /\ ret'.msg = <<>> /\ ret'.err = ""
              /\ UNCHANGED <<incoming, outgoing, dead>>]_vars

\* Pop has returned nothing although incoming holds an entry
C5_Witness == ret.op = "Pop" /\ ret.key = NoKey /\ DOMAIN incoming # {}

\* C6: whenever Pop returns (nil, nil) without error, no envelope of incoming
\* has an instant that has been reached.
C6_NilMeansNoneDue ==
    (ret.op = "Pop" /\ ret.key = NoKey /\ ret.err = "") =>
        \A k \in DOMAIN incoming : Parse(k) > now

\* C7: within one drain the successful Pops return keys in non-decreasing
\* order of instant: if a key popped later was in incoming when an earlier one
\* was popped, the earlier key's instant is not after the later key's.
C7_DrainFIFO ==
    \A i, j \in 1..Len(drain.keys) :
       (i < j /\ drain.keys[j] \in drain.seen[i]) =>
           Parse(drain.keys[i]) <= Parse(drain.keys[j])

\* C8: for a key k of outgoing, Retry(k) deletes k from outgoing and inserts
\* the same envelope into incoming under a key different from k, its Retry
\* one more than before and Host, From, To and Data as before; dead is
\* unchanged.
C8_RetryMoves ==
    [][(ret'.op = "Retry" /\ ret'.err = "") =>
         LET k == ret'.key
         IN  /\ k \in DOMAIN outgoing
             /\ outgoing' = Delete(outgoing, k)
             /\ dead' = dead
             /\ \E nk \in DOMAIN incoming' :
                   /\ nk # k
                   /\ nk = ret'.newkey
                   /\ incoming'[nk].tag = outgoing[k].tag
                   /\ decode(incoming'[nk].gob)
                        = [decode(outgoing[k].gob) EXCEPT !.Retry = @ + 1]]_vars

\* Retry has succeeded
C8_Witness == ret.op = "Retry" /\ ret.err = "" /\ ret.newkey \in DOMAIN incoming

C10_RetryWaits ==
    [][(ret.op = "Retry" /\ ret.err = "" /\ DOMAIN incoming = {ret.newkey} /\ ret'.op = "Pop") =>
         /\ ret'.key = NoKey /\ ret'.msg = <<>> /\ ret'.err = ""
         /\ UNCHANGED <<incoming, outgoing, dead>>]_vars

\* Retry has re-inserted the only envelope of incoming
C10_Witness == ret.op = "Retry" /\ ret.err = "" /\ DOMAIN incoming = {ret.newkey}

\* the tags of the envelopes held by a bucket
TagsOf(b) == {b[k].tag : k \in DOMAIN b}

\* C11: Kill(k) of a key Pop moved to outgoing removes k from outgoing and
\* stores the entry, as it was, in dead under k, leaving incoming alone; and an
\* envelope that is in dead is never again in incoming or outgoing, and no Pop
\* returns it.
C11_KillMoves ==
    [][/\ (ret'.op = "Kill" /\ ret'.err = "") =>
            /\ ret'.key \in DOMAIN outgoing
            /\ outgoing' = Delete(outgoing, ret'.key)
            /\ dead' = Put(dead, ret'.key, outgoing[ret'.key])
            /\ incoming' = incoming
       /\ \A id \in TagsOf(dead) :
            /\ id \notin TagsOf(incoming') \cup TagsOf(outgoing')
            /\ ret'.op = "Pop" => ret'.id # id]_vars

\* Recover has re-queued an entry while another envelope was dead
C11_Witness ==
    /\ ret.op = "Recover" /\ ret.n > 0
    /\ DOMAIN dead # {} /\ DOMAIN incoming # {}

\* C12: Retry(k) and Kill(k) with a key k that is not in outgoing return an
\* error and leave the three buckets as they were.
C12_AbsentKeyFails ==
    [][(ret'.op \in {"Retry", "Kill"} /\ ret'.key \notin DOMAIN outgoing) =>
         /\ ret'.err # ""
         /\ UNCHANGED <<incoming, outgoing, dead>>]_vars

\* Kill was called with the key of an entry that had left outgoing, the store
\* working
C12_Witness == ret.op = "Kill" /\ ret.err = "notfound" /\ ret.key # NoKey

\* C13: RemoveDelivered(k) deletes k from outgoing and leaves incoming and dead
\* alone; when the store works it returns no error whether k was there or not,
\* and a second call changes nothing; Push, Pop, RemoveDelivered on the empty
\* queue leaves the three buckets empty.
C13_RemoveDelivered ==
    [][ret'.op = "RemoveDelivered" =>
         /\ ret'.err \in {"", "store"}
         /\ incoming' = incoming /\ dead' = dead
         /\ outgoing' = IF ret'.err = "" THEN Delete(outgoing, ret'.key) ELSE outgoing
         /\ (ret'.err = "" /\ ret.op = "RemoveDelivered" /\ ret.err = "" /\ ret.key = ret'.key) =>
               outgoing' = outgoing
         /\ (/\ ret'.err = ""
             /\ ret.op = "Pop" /\ ret.key = ret'.key /\ ret.err = ""
             /\ DOMAIN incoming = {} /\ DOMAIN dead = {} /\ DOMAIN outgoing = {ret.key}) =>
               /\ incoming' = EmptyBucket /\ outgoing' = EmptyBucket /\ dead' = EmptyBucket]_vars

\* RemoveDelivered was called with the key of an entry it had removed before,
\* and returned no error
C13_Witness ==
    /\ ret.op = "RemoveDelivered" /\ ret.err = "" /\ ret.id = 0 /\ ret.key # NoKey
    /\ removed # {}
    /\ DOMAIN incoming = {} /\ DOMAIN outgoing = {} /\ DOMAIN dead = {}

\* C14: when Recover has returned, outgoing is empty, however many entries it
\* held, and dead is as it was.
C14_RecoverEmpties ==
    [][(ret'.op = "Recover" /\ ret'.err = "") =>
         /\ outgoing' = EmptyBucket
         /\ dead' = dead]_vars

\* Recover has returned after finding two entries in outgoing
C14_Witness == ret.op = "Recover" /\ ret.err = "" /\ ret.n = 2 /\ DOMAIN outgoing = {}

\* C15: Recover re-inserts every entry of outgoing into incoming: incoming holds
\* afterwards as many entries as it and outgoing held before.
C15_RecoverKeepsAll ==
    [][(ret'.op = "Recover" /\ ret'.err = "") =>
         Cardinality(DOMAIN incoming')
            = Cardinality(DOMAIN incoming) + Cardinality(DOMAIN outgoing)]_vars

\* C16: when Pop has returned (k, e), nothing has settled k, and Recover has
\* run on that one entry with incoming empty, the next Pop returns (k2, e2)
\* with k2 different from k and e2 equal to e.
C16_CrashRecovery ==
    [][(/\ ret.op = "Recover" /\ ret.err = "" /\ ret.n = 1
        /\ ret.was.op = "Pop" /\ ret.was.key # NoKey
        /\ Cardinality(DOMAIN incoming) = 1
        /\ ret'.op = "Pop") =>
         /\ ret'.key # NoKey
         /\ ret'.err = ""
         /\ ret'.key # ret.was.key
         /\ ret'.msg = ret.was.msg]_vars

C18_HandleError ==
    [][(ret.op = "Pop" /\ ret.key # NoKey /\ ret'.op \notin {"Tick", "Push", "Pop"}) =>
         LET k == ret.key
             env == ret.msg[1]
         IN  /\ ret'.key = k /\ ret'.err = ""
             /\ ret'.op = IF env.Retry = 6 THEN "Kill" ELSE "Retry"
             /\ removed' = removed
             /\ outgoing' = Delete(outgoing, k)
             /\ IF env.Retry = 6
                THEN /\ incoming' = incoming
                     /\ dead' = Put(dead, k, outgoing[k])
                ELSE /\ dead' = dead
                     /\ ret'.newkey \in DOMAIN incoming'
                     /\ RetryOf(incoming', ret'.newkey) = env.Retry + 1]_vars

\* the handler has retried an envelope whose counter was 7
C18_Witness ==
    /\ ret.op = "Retry" /\ ret.err = "" /\ ret.newkey \in DOMAIN incoming
    /\ RetryOf(incoming, ret.newkey) = 8

\* C19: an envelope whose every delivery fails is tried exactly 7 times, the
\* tries seeing Retry 0, 1, ..., 6; with the 7th failure it is in dead, and it
\* is not in incoming or outgoing from then on.
C19_SevenAttempts ==
    /\ Len(attempts) <= 7
    /\ \A i \in 1..Len(attempts) :
          /\ attempts[i].retry = i - 1
          /\ attempts[i].id = 1
          /\ ~attempts[i].ok
    /\ Len(attempts) = 7 =>
          /\ TagsOf(dead) = {1}
          /\ TagsOf(incoming) \cup TagsOf(outgoing) = {}
    /\ (Len(attempts) < 7 /\ accepted # <<>>) =>
          /\ TagsOf(dead) = {}
          /\ TagsOf(incoming) \cup TagsOf(outgoing) = {1}

\* the envelope is dead after seven tries and its last worker has returned
C19_Witness ==
    /\ Len(attempts) = 7 /\ attempts[7].retry = 6
    /\ DOMAIN dead # {} /\ workers = NoWorkers /\ drain.pc = "idle"

\* C20: when the MX lookup, the dial, the EHLO or the STARTTLS of a worker has
\* failed, the worker applies the failure handler once to every pair of its
\* batch, in order, and calls RemoveDelivered for none.
C20_BatchFailure ==
    \A w \in DOMAIN workers :
       LET wk == workers[w]
       IN  wk.err # "" =>
             /\ wk.pc \in {"fail", "done"}
             /\ Len(wk.calls) = wk.i - 1
             /\ wk.pc = "done" <=> Len(wk.calls) = Len(wk.batch)
             /\ \A j \in 1..Len(wk.calls) :
                   /\ wk.calls[j].key = wk.batch[j].key
                   /\ wk.calls[j].op = IF wk.batch[j].msg.Retry = 6 THEN "Kill" ELSE "Retry"

\* a worker whose STARTTLS failed has handled both pairs of its batch
C20_Witness ==
    \E w \in DOMAIN workers :
       /\ workers[w].err = "starttls" /\ workers[w].pc = "done"
       /\ Len(workers[w].batch) = 2 /\ Len(workers[w].calls) = 2

\* C22: when the DKIM primitive panics inside Signer.Sign, the panic does not
\* reach the caller and Sign returns a non-nil error.
C22_SignFault ==
    (ret.op = "Send" /\ ret.sign.called /\ ret.prim = "panic") =>
        /\ ~ret.sign.panics
        /\ ret.sign.err # ""

\* C23: on a connection with a signer, when signing fails (an error returned or
\* a panic in the primitive) msg.Data is written to the DATA stream before the
\* stream is closed; the stream is never closed with neither the signed form
\* nor msg.Data on it.
C23_UnsignedFallback ==
    (ret.op = "Send" /\ ret.signer /\ ret.closed) =>
        /\ ret.prim # "" => ret.stream # <<>> /\ ret.stream[Len(ret.stream)] = "data"
        /\ \E i \in 1..Len(ret.stream) : ret.stream[i] \in {"signed", "data"}

\* the host of a recipient: what follows the first "@" of the address
HostOfRcpt(to) ==
    LET i == CHOOSE n \in 1..Len(to) : to[n] = At /\ \A j \in 1..(n - 1) : to[j] # At
    IN  SubSeq(to, i + 1, Len(to))

\* the recipients of host h among tos, in the order of tos
RECURSIVE RcptsOfHost(_, _)
RcptsOfHost(tos, h) ==
    IF tos = <<>> THEN <<>>
    ELSE (IF HostOfRcpt(Head(tos)) = h THEN <<Head(tos)>> ELSE <<>>)
         \o RcptsOfHost(Tail(tos), h)

\* C28: for a submission whose recipients span N distinct hosts the grouper
\* emits exactly N envelopes, one per host, each with precisely the recipients
\* of its host in input order, the submission's From and Data, and Retry 0;
\* every input recipient is in exactly one output envelope.
C28_Grouper ==
    ret.op = "split" =>
        LET sub == ret.msg[1]
            out == ret.out
            hosts == {HostOfRcpt(sub.To[j]) : j \in 1..Len(sub.To)}
        IN  /\ Len(out) = Cardinality(hosts)
            /\ \A h \in hosts : Cardinality({i \in 1..Len(out) : out[i].Host = h}) = 1
            /\ \A i \in 1..Len(out) :
                  /\ out[i].To = RcptsOfHost(sub.To, out[i].Host)
                  /\ out[i].From = sub.From
                  /\ out[i].Data = sub.Data
                  /\ out[i].Retry = 0
            /\ \A j \in 1..Len(sub.To) :
                  Cardinality({i \in 1..Len(out) :
                                  \E n \in 1..Len(out[i].To) : out[i].To[n] = sub.To[j]}) = 1

\* C21: the worker of a batch for example.com calls RemoveDelivered for every
\* key of the batch, in order, and does nothing on the network (no MX lookup,
\* no dial, no SMTP command); none of those envelopes is retried or killed.
C21_TestDomain ==
    /\ \A w \in DOMAIN workers :
          LET wk == workers[w]
          IN  wk.host = TestDomain =>
                 /\ wk.net = <<>>
                 /\ wk.err = ""
                 /\ Len(wk.calls) = wk.i - 1
                 /\ wk.pc = "done" => Len(wk.calls) = Len(wk.batch)
                 /\ \A n \in 1..Len(wk.calls) :
                       /\ wk.calls[n].op = "RemoveDelivered"
                       /\ wk.calls[n].key = wk.batch[n].key
    /\ \A id \in Pushed :
          accepted[id].Host = TestDomain =>
             /\ \A k \in DOMAIN dead : dead[k].tag # id
             /\ \A k \in DOMAIN incoming : incoming[k].tag = id => RetryOf(incoming, k) = 0
             /\ \A n \in 1..Len(attempts) : attempts[n].id # id

C21_Witness ==
    \E w \in DOMAIN workers :
       /\ workers[w].host = TestDomain
       /\ workers[w].pc = "done"
       /\ Len(workers[w].batch) = 2
       /\ Cardinality(removed) = 2

\* the (key, env) pairs PopBatch returned, in the order they were popped
PoppedPairs(r) == [i \in 1..Len(r.keys) |-> [key |-> r.keys[i], msg |-> r.msgs[i]]]

\* the pairs of ps whose envelope is for host h, in the order of ps
PairsFor(ps, h) ==
    LET ForH(p) == p.msg.Host = h
    IN  SelectSeq(ps, ForH)

\* C26: when PopBatch returns a non-empty batch the scheduler starts exactly
\* one worker per distinct Host of the batch and leaves the running workers
\* alone; the batch of the worker of host h is the pairs whose Host is h, in
\* the order they were popped, so every pair goes to the worker of its own
\* Host and to no other.
C26_OneWorkerPerHost ==
    [][(ret'.op = "PopBatch" /\ drain.pc = "run" /\ ret'.keys # <<>>) =>
         LET ps == PoppedPairs(ret')
             hosts == {ps[i].msg.Host : i \in 1..Len(ps)}
             new == (DOMAIN workers') \ (DOMAIN workers)
         IN  /\ \A w \in DOMAIN workers : w \in DOMAIN workers' /\ workers'[w] = workers[w]
             /\ Cardinality(new) = Cardinality(hosts)
             /\ \A h \in hosts :
                   Cardinality({w \in new : workers'[w].host = h}) = 1
             /\ \A w \in new :
                   /\ workers'[w].host \in hosts
                   /\ workers'[w].batch = PairsFor(ps, workers'[w].host)
                   /\ workers'[w].pc = "open"
                   /\ workers'[w].i = 1]_vars

C26_Witness ==
    /\ ret.op = "PopBatch"
    /\ Len(ret.keys) = 2
    /\ \E v, w \in DOMAIN workers :
          /\ workers[v].host # workers[w].host
          /\ workers[v].batch = <<[key |-> ret.keys[1], msg |-> ret.msgs[1]]>>
          /\ workers[w].batch = <<[key |-> ret.keys[2], msg |-> ret.msgs[2]]>>

\* C27: the notification of a submission handler never blocks, whatever the
\* number of handlers and the state of the channel (a handler that has pushed
\* its envelopes can always take its next step), the channel never holds more
\* than one wakeup, and a handler that finds the slot full leaves the channel
\* as it is and returns.
C27_NotifyNeverBlocks ==
    /\ signal \in 0..1
    /\ \A h \in DOMAIN handlers : handlers[h] = <<>> => ENABLED HandleNotify(h)
    /\ \A h \in DOMAIN handlers :
          (handlers[h] = <<>> /\ signal = 1) =>
              ENABLED (HandleNotify(h) /\ signal' = 1 /\ h \notin DOMAIN handlers')

C27_Witness ==
    /\ signal = 1
    /\ ret.op = "notify"
    /\ \E h \in DOMAIN handlers : handlers[h] = <<>>

\* the keys worker wk has been handed and has not yet settled
Held(wk) == {wk.batch[n].key : n \in wk.i..Len(wk.batch)}

\* C24: sendLoop calls Recover exactly once per start of the process: never a
\* second time, and before the first PopBatch and before any worker exists;
\* when Recover runs no worker holds a key.
C24_RecoverOncePerStart ==
    [][/\ sched'.recovers <= 1
       /\ (drain'.pc = "run" \/ workers' # NoWorkers) => sched'.recovers = 1
       /\ sched'.recovers > sched.recovers =>
             /\ sched.recovers = 0
             /\ drain.pc = "idle"
             /\ \A w \in DOMAIN workers : Held(workers[w]) = {}
             /\ workers = NoWorkers]_vars

C24_Witness ==
    /\ ret.op = "Recover"
    /\ ret.n >= 1
    /\ sched.recovers = 1
    /\ Len(accepted) >= 1

\* who holds key k: the workers that have k among the pairs they have not yet
\* settled, and the PopBatch in progress when it has popped k
HoldersIn(ws, d, k) ==
    {<<"worker", w>> : w \in {x \in DOMAIN ws : k \in Held(ws[x])}}
    \cup (IF \E n \in 1..Len(d.keys) : d.keys[n] = k THEN {<<"drain", 0>>} ELSE {})

Holders(k) == HoldersIn(workers, drain, k)

\* C25: while the process runs (Recover done, no store error) every key in
\* outgoing is held by exactly one attempt in flight (a worker, or the PopBatch
\* that is about to hand it to one), and no key is held by two workers.
C25_OneHolder ==
    sched.pc # "start" =>
        /\ \A k \in DOMAIN outgoing : Cardinality(Holders(k)) = 1
        /\ \A v, w \in DOMAIN workers :
              v # w => Held(workers[v]) \cap Held(workers[w]) = {}

\* the envelopes whose last delivery succeeded and whose RemoveDelivered then
\* failed with a store error, and which nothing holds: the orphans
Orphans ==
    {id \in Pushed :
        /\ \E n \in 1..Len(attempts) :
              /\ attempts[n].id = id /\ attempts[n].ok /\ attempts[n].err = "store"
              /\ \A j \in (n + 1)..Len(attempts) : attempts[j].id # id
        /\ \E k \in DOMAIN outgoing : outgoing[k].tag = id /\ Holders(k) = {}}

\* C29: when RemoveDelivered fails with a store error after a successful
\* delivery, the call changes no bucket and the worker makes no other call for
\* the envelope; the envelope then stays in outgoing, as it is, until the
\* process starts again, and the Recover of that start moves it to incoming
\* with its Retry counter unchanged and due at once, so that it is delivered
\* again.
C29_OrphanRecovered ==
    [][/\ (Len(attempts') > Len(attempts)
           /\ attempts'[Len(attempts')].ok /\ attempts'[Len(attempts')].err = "store") =>
             /\ ret'.op = "RemoveDelivered"
             /\ <<incoming', outgoing', dead'>> = <<incoming, outgoing, dead>>
       /\ \A id \in Orphans :
             IF sched'.recovers > sched.recovers /\ ret'.err = ""
             THEN \E k \in DOMAIN incoming' :
                     /\ Places(id)' = {<<"incoming", k>>}
                     /\ Parse(k) <= now'
                     /\ decode(incoming'[k].gob) = accepted[id]
             ELSE Places(id)' = Places(id)]_vars

DueInIncoming(id) ==
    \E k \in DOMAIN incoming : incoming[k].tag = id /\ Parse(k) <= now

\* PopBatch has returned envelope id and a worker has been started with its
\* pair
HandedToWorker(id) ==
    /\ ret.op = "PopBatch"
    /\ \E n \in 1..Len(ret.ids) :
          /\ ret.ids[n] = id
          /\ \E w \in DOMAIN workers : \E j \in 1..Len(workers[w].batch) :
                workers[w].batch[j] = [key |-> ret.keys[n], msg |-> ret.msgs[n]]

\* C31: with a fair scheduler and a ticker that keeps firing, every envelope
\* that is in incoming with its eligible instant passed is eventually popped
\* and handed to a worker, whenever it was pushed: while sendLoop drains,
\* sleeps its grace period or is about to wait.
C31_EventuallyHanded ==
    \A id \in 1..MaxPush : DueInIncoming(id) ~> HandedToWorker(id)

\* the Retry counter of every envelope of bucket b is in S
RetryIn(b, S) == \A k \in DOMAIN b : RetryOf(b, k) \in S

\* the Retry counters of the envelopes stored in incoming and outgoing, by
\* envelope
CountersOf(inc, out) ==
    {<<inc[k].tag, decode(inc[k].gob).Retry>> : k \in DOMAIN inc}
    \cup {<<out[k].tag, decode(out[k].gob).Retry>> : k \in DOMAIN out}

\* C32: in the running system, where every envelope comes in with Retry 0,
\* every envelope in incoming or outgoing has a Retry counter from 0 to 6 and
\* every envelope in dead has Retry 6; Recover and a stop of the process give
\* no envelope a counter it did not have.
C32_RetryRange ==
    /\ [](/\ RetryIn(incoming, 0..MaxRetries)
          /\ RetryIn(outgoing, 0..MaxRetries)
          /\ RetryIn(dead, {MaxRetries}))
    /\ [][ret'.op \in {"Recover", "Restart"} =>
             /\ CountersOf(incoming', outgoing') \subseteq CountersOf(incoming, outgoing)
             /\ dead' = dead]_vars

\* C33: when the peer advertises STARTTLS, the worker asks for the upgrade
\* with a TLS ServerName equal to the address it dialed: the host of the first
\* MX record without its trailing dot.
C33_ServerName ==
    (ret.op = "Hello" /\ ret.config # NoConfig) =>
        /\ ret.dialed = StringsTrimSuffix(ret.lookup.hosts[1])
        /\ ret.msg[1].c = ret.dialed
        /\ ret.config.ServerName = ret.dialed

\* C34: within one submission connection, the envelope the handler is given at
\* a DATA holds just the recipients RCPT has accepted since the DATA or RSET
\* before it, none of an earlier message of the session.
C34_FreshRecipients ==
    (ret.op = "DATA" /\ ret.handed # <<>>) => ret.handed[1].To = ret.rcpts

====
